---------------------------- MODULE Spec2Model ----------------------------
(***************************************************************************)
(* WP-RAG: retrieval-augmented chat over a vector store (PGVector) and a   *)
(* document store (MongoDB).                                               *)
(*                                                                         *)
(*   src/index_mongo.py    IndexDB: store_document, get_matching_documents *)
(*   src/vector_search.py  VectorSearch: add_document, search_docs         *)
(*   src/query_llm.py      QueryLLM: chat, the interactive loop, history   *)
(*                                                                         *)
(* A text is a sequence of tokens (strings): a token is one character of   *)
(* user input, or one fixed piece of a template.  Concatenation is \o and  *)
(* the empty string is << >>.  A Python dict is a record whose DOMAIN is   *)
(* the set of its keys, a Python list is a sequence.  A similarity score   *)
(* (a float distance) is a natural number of tenths.                       *)
(***************************************************************************)
EXTENDS Integers, Sequences, FiniteSets, TLC

(* ------------------------------ bounds --------------------------------- *)

\* successful chat exchanges in one run (the length the stored log can reach)
MaxTurns == 2
\* max_history is drawn from 0..MaxWindow
MaxWindow == 2
\* records the document store is let grow to
MaxStore == 3
\* documents the vector store is let grow to
MaxVStore == 2

(* ------------------------------ inputs --------------------------------- *)

\* Python's None, JSON's null
None == "None"

\* the similarity scores the index service may answer, in tenths
Scores == {0, 1}

\* the values of num_results / k
NumResults == {1, 2}

\* the completions the language model may answer
Responses == {<<"r1">>, <<"r2">>}

\* str(float) of a score
ScoreStr(score) == <<"0.0", "0.1", "0.2", "0.3", "0.4">>[score + 1]

\* the JSON files offered to ingestion
Paths == {"a1.json", "a2.json", "b.json", "noid.json", "null.json", "bad.json"}

\* open() and json.load() succeed on the file
Readable(path) == path # "bad.json"

\* json.load(file) of a readable file
Load(path) ==
  CASE path = "a1.json" ->
         [document_id |-> "a", summary |-> "s1", key_words |-> <<"k1", "k2">>]
    [] path = "a2.json" -> [document_id |-> "a", summary |-> "s2"]
    [] path = "b.json" -> [document_id |-> "b", key_words |-> <<"k3">>]
    [] path = "noid.json" -> [summary |-> "s4"]
    [] path = "null.json" -> [document_id |-> None, summary |-> "s5"]

(* ------------------------- Python primitives --------------------------- *)

\* dict.get(key, default)
Get(d, key, default) == IF key \in DOMAIN d THEN d[key] ELSE default

Min(a, b) == IF a <= b THEN a ELSE b

\* seq[start:] with Python's treatment of a negative start
PySliceFrom(seq, start) ==
  LET len == Len(seq)
      s0 == IF start < 0 THEN start + len ELSE start
      s == IF s0 < 0 THEN 0 ELSE IF s0 > len THEN len ELSE s0
  IN SubSeq(seq, s + 1, len)

Whitespace == {" ", "\n"}

RECURSIVE LStrip(_)
LStrip(s) ==
  IF s # << >> /\ Head(s) \in Whitespace THEN LStrip(Tail(s)) ELSE s

RECURSIVE RStrip(_)
RStrip(s) ==
  IF s # << >> /\ s[Len(s)] \in Whitespace
  THEN RStrip(SubSeq(s, 1, Len(s) - 1)) ELSE s

\* str.strip()
Strip(s) == RStrip(LStrip(s))

LowerChar(c) ==
  CASE c = "E" -> "e" [] c = "X" -> "x" [] c = "I" -> "i" [] c = "T" -> "t"
    [] c = "R" -> "r" [] c = "S" -> "s" [] c = "U" -> "u" [] c = "M" -> "m"
    [] c = "A" -> "a" [] c = "Y" -> "y" [] c = "H" -> "h" [] c = "O" -> "o"
    [] OTHER -> c

\* str.lower()
Lower(s) == [i \in 1..Len(s) |-> LowerChar(s[i])]

\* sep.join(parts): parts is a sequence of texts
RECURSIVE Join(_, _)
Join(sep, parts) ==
  IF parts = << >> THEN << >>
  ELSE IF Len(parts) = 1 THEN parts[1]
  ELSE parts[1] \o sep \o Join(sep, Tail(parts))

\* a list of strings as a list of one-token texts
AsTexts(strs) == [i \in 1..Len(strs) |-> <<strs[i]>>]


(* ------------------- IndexDB (src/index_mongo.py) ---------------------- *)

\* collection.find_one({"document_id": id}) is truthy; a null id also matches
\* a record without the field
find_one(collection, id) ==
  \E i \in 1..Len(collection) :
    Get(collection[i], "document_id", None) = id

\* collection.insert_one(document)
insert_one(collection, document) == Append(collection, document)

\* (mutant) store_document without its find_one check
store_document_unchecked(collection, path) ==
  IF ~Readable(path) \/ "document_id" \notin DOMAIN Load(path)
  THEN [raised |-> TRUE, ret |-> FALSE, collection |-> collection]
  ELSE [raised |-> FALSE, ret |-> TRUE,
        collection |-> insert_one(collection, Load(path))]

\* the try block of store_document
store_document_body(collection, path) ==
  IF ~Readable(path)
  THEN [raised |-> TRUE, ret |-> FALSE, collection |-> collection]
  ELSE LET document == Load(path) IN
    IF "document_id" \notin DOMAIN document
    THEN [raised |-> TRUE, ret |-> FALSE, collection |-> collection]
    ELSE IF find_one(collection, document.document_id)
    THEN [raised |-> FALSE, ret |-> FALSE, collection |-> collection]
    ELSE [raised |-> FALSE, ret |-> TRUE,
          collection |-> insert_one(collection, document)]

\* (mutant) store_document without its "except Exception"
store_document_uncaught(collection, path) ==
  store_document_body(collection, path)

\* store_document: the try block under its "except Exception: return False"
store_document(collection, path) ==
  LET r == store_document_body(collection, path) IN
  IF r.raised
  THEN [raised |-> FALSE, ret |-> FALSE, collection |-> r.collection]
  ELSE r

\* doc_scores: identifier -> snippet and score, a later match overwriting
RECURSIVE DocScores(_)
DocScores(vector_search_results) ==
  IF vector_search_results = << >> THEN << >>
  ELSE LET n == Len(vector_search_results)
           before == DocScores(SubSeq(vector_search_results, 1, n - 1))
           result == vector_search_results[n]
       IN IF "document_id" \in DOMAIN result.metadata
          THEN [id \in DOMAIN before \cup {result.metadata.document_id} |->
                  IF id = result.metadata.document_id
                  THEN [vector_content |-> result.content,
                        score |-> result.similarity_score]
                  ELSE before[id]]
          ELSE before

\* the orders in which collection.find({"document_id": {"$in": ids}})
\* may return the records it matches
Find(collection, ids) ==
  LET hits == {i \in 1..Len(collection) :
                 Get(collection[i], "document_id", None) \in ids}
      orders == {f \in [1..Cardinality(hits) -> hits] :
                   \A i, j \in DOMAIN f : i # j => f[i] # f[j]}
  IN {[i \in DOMAIN f |-> collection[f[i]]] : f \in orders}

\* the loop that joins the fetched records to doc_scores
RECURSIVE Combine(_, _)
Combine(docs, doc_scores) ==
  IF docs = << >> THEN << >>
  ELSE LET doc == Head(docs)
           doc_id == doc.document_id
           rest == Combine(Tail(docs), doc_scores)
       IN IF doc_id \in DOMAIN doc_scores
          THEN <<[document |-> doc,
                  vector_content |-> doc_scores[doc_id].vector_content,
                  similarity_score |-> doc_scores[doc_id].score]>> \o rest
          ELSE rest

\* one step of list.sort: x goes after every item with a score <= its own
InsertByScore(sorted, x) ==
  LET p == Cardinality({i \in 1..Len(sorted) :
                          sorted[i].similarity_score <= x.similarity_score})
  IN SubSeq(sorted, 1, p) \o <<x>> \o SubSeq(sorted, p + 1, Len(sorted))

\* results.sort(key=lambda x: x['similarity_score']): stable, ascending
RECURSIVE SortByScore(_)
SortByScore(results) ==
  IF results = << >> THEN << >>
  ELSE InsertByScore(SortByScore(SubSeq(results, 1, Len(results) - 1)),
                     results[Len(results)])

\* get_matching_documents, given the records the store returned
get_matching_documents(vector_search_results, docs) ==
  SortByScore(Combine(docs, DocScores(vector_search_results)))

(* ---------------- VectorSearch (src/vector_search.py) ------------------ *)

\* the page_content add_document builds from the JSON record
TextContent(json_data) ==
  <<"\n", "Summary: ">>
    \o (IF "summary" \in DOMAIN json_data THEN <<json_data.summary>> ELSE << >>)
    \o <<"\n", "Keywords: ">>
    \o Join(<<", ">>, AsTexts(Get(json_data, "key_words", << >>)))
    \o <<"\n">>

\* the try block of add_document; check_ok: the existence query answers
\* (when it raises, the inner "except Exception: pass" goes on to insert)
add_document_body(vector_store, path, check_ok) ==
  IF ~Readable(path)
  THEN [raised |-> TRUE, ret |-> FALSE, vector_store |-> vector_store]
  ELSE LET json_data == Load(path)
           document_id == Get(json_data, "document_id", None)
           existing == {i \in 1..Len(vector_store) :
                          vector_store[i].metadata.document_id = document_id}
           document == [page_content |-> TextContent(json_data),
                        metadata |->
                          [document_id |-> document_id,
                           keywords |-> Get(json_data, "key_words", << >>)]]
       IN IF document_id = None
          THEN [raised |-> TRUE, ret |-> FALSE, vector_store |-> vector_store]
          ELSE IF check_ok /\ existing # {}
          THEN [raised |-> FALSE, ret |-> FALSE, vector_store |-> vector_store]
          ELSE [raised |-> FALSE, ret |-> TRUE,
                vector_store |-> Append(vector_store, document)]

\* add_document: the try block under its "except Exception: return False"
add_document(vector_store, path, check_ok) ==
  LET r == add_document_body(vector_store, path, check_ok) IN
  IF r.raised
  THEN [raised |-> FALSE, ret |-> FALSE, vector_store |-> r.vector_store]
  ELSE r

\* what search_docs may return for k: the k nearest documents, nearest
\* first, each with the distance the index service gives it
search_docs(vector_store, k) ==
  LET n == Min(k, Len(vector_store))
      picks == {f \in [1..n -> 1..Len(vector_store)] :
                  \A i, j \in 1..n : i # j => f[i] # f[j]}
      dists == {d \in [1..n -> Scores] :
                  \A i, j \in 1..n : i <= j => d[i] <= d[j]}
  IN {[i \in 1..n |->
         [content |-> Strip(vector_store[f[i]].page_content),
          metadata |-> vector_store[f[i]].metadata,
          similarity_score |-> d[i]]] : f \in picks, d \in dists}

(* -------------------- QueryLLM (src/query_llm.py) ---------------------- *)

\* the two lines of each turn
RECURSIVE HistoryLines(_)
HistoryLines(turns) ==
  IF turns = << >> THEN << >>
  ELSE <<<<"Human: ">> \o Head(turns).query,
         <<"Assistant: ">> \o Head(turns).response>>
       \o HistoryLines(Tail(turns))

\* _format_conversation_history
format_conversation_history(conversation_history, max_history) ==
  Join(<<"\n">>,
       HistoryLines(PySliceFrom(conversation_history, 0 - max_history)))

\* context_parts of _prepare_context: the values each paragraph shows
ContextParts(vector_results, mongo_results) ==
  [i \in 1..Min(Len(vector_results), Len(mongo_results)) |->
     LET v_result == vector_results[i]
         document == mongo_results[i].document
     IN [score |-> v_result.similarity_score,
         content |-> v_result.content,
         summary |-> IF "summary" \in DOMAIN document
                     THEN <<document.summary>> ELSE << >>,
         keywords |-> Join(<<", ">>,
                           AsTexts(Get(document, "key_words", << >>))),
         document_id |-> Get(document, "document_id", "")]]

\* one paragraph of the context block
Paragraph(part) ==
  <<"Relevance Score: ", ScoreStr(part.score), "\n",
    "Vector Search Content:", "\n">> \o part.content
    \o <<"\n", "Full Document:", "\n", "Summary: ">> \o part.summary
    \o <<"\n", "Keywords: ">> \o part.keywords
    \o <<"\n", "Document ID: ", part.document_id, "\n">>

\* _prepare_context
prepare_context(vector_results, mongo_results) ==
  LET context_parts == ContextParts(vector_results, mongo_results)
  IN Join(<<"\n\n">>,
          [i \in DOMAIN context_parts |-> Paragraph(context_parts[i])])

\* prompt_template.format(context=, history=, question=)
FormatPrompt(context, history, question) ==
  <<"You are a helpful assistant engaging in a conversation. ",
    "Context: ">> \o context
    \o <<"\n", "Conversation History:", "\n">> \o history
    \o <<"\n", "Current Question: ">> \o question
    \o <<"\n", "Provide a detailed, conversational response ">>

\* (mutant) a reset that drops the latest turn only
reset_drops_latest(conversation_history) ==
  SubSeq(conversation_history, 1, Len(conversation_history) - 1)

\* reset_conversation: the log it leaves
reset_conversation(conversation_history) == << >>

\* get_conversation_summary (without the 'history' entry, which is the log)
get_conversation_summary(conversation_history) ==
  [total_turns |-> Len(conversation_history),
   conversation_start |->
     IF conversation_history # << >>
     THEN conversation_history[1].timestamp ELSE None,
   conversation_end |->
     IF conversation_history # << >>
     THEN conversation_history[Len(conversation_history)].timestamp
     ELSE None]

(* ------------------------------- state --------------------------------- *)

VARIABLES
  collection,            \* IndexDB.collection: the records of the document store
  vector_store,          \* VectorSearch.vector_store: the indexed documents
  last_ret,              \* the last ingestion call and what it returned
  client_pc,             \* each concurrent store_document call's position
  client_path,           \* each concurrent store_document call's argument
  client_ret,            \* what each client's last store_document returned
  main_pc,               \* position of the retrieval program (index_mongo.main)
  conversation_history,  \* QueryLLM.conversation_history
  max_history,           \* QueryLLM.max_history
  now,                   \* the clock datetime.now() reads
  loop,                  \* start_interactive_chat: "off", "reading", "ended"
  pc,                    \* position of the chat call in progress, or "idle"
  caller,                \* who called chat: "api" or "loop"
  query,                 \* chat's query
  num_results,           \* chat's num_results
  vector_results,        \* chat's / main's vector_results
  docs,                  \* the records get_matching_documents fetched
  mongo_results,         \* chat's mongo_results / main's full_results
  history,               \* the transcript _format_conversation_history built
  context_parts,         \* the paragraphs _prepare_context built
  prompt,                \* the prompt handed to the language model
  outcome,               \* how the last operation of the session ended
  contacted,             \* the services the chat call has invoked so far
  entry_log              \* conversation_history when the chat call began

ingest_vars == <<collection, vector_store, last_ret>>
client_vars == <<client_pc, client_path, client_ret>>
chat_vars == <<pc, caller, query, num_results, history, context_parts, prompt,
               contacted, entry_log>>
result_vars == <<vector_results, docs, mongo_results>>
session_vars == <<conversation_history, max_history, now, loop, outcome>>
vars == <<ingest_vars, client_vars, main_pc, chat_vars, result_vars,
          session_vars>>

Clients == {1, 2}

NoCall == [op |-> "none", path |-> "", ret |-> FALSE, raised |-> FALSE]

\* ingestion runs a session's corpus comes from: the files, in order, and
\* whether each went to both stores or to the vector store alone
Scripts ==
  { << >>,
    << <<"both", "a1.json">>, <<"both", "b.json">> >>,
    << <<"add", "a1.json">>, <<"both", "b.json">> >> }

\* the same for the retrieval program; "unchecked": add_document whose
\* existence query raised
ConcScripts ==
  { << <<"add", "a1.json">>, <<"add", "b.json">> >>,
    << <<"add", "a1.json">>, <<"unchecked", "a2.json">> >> }

\* the stores after the script's add_document and store_document calls
RECURSIVE RunScript(_)
RunScript(script) ==
  IF script = << >> THEN [collection |-> << >>, vector_store |-> << >>]
  ELSE LET n == Len(script)
           before == RunScript(SubSeq(script, 1, n - 1))
           op == script[n][1]
           path == script[n][2]
       IN [collection |->
             IF op = "both"
             THEN store_document(before.collection, path).collection
             ELSE before.collection,
           vector_store |->
             add_document(before.vector_store, path,
                          op # "unchecked").vector_store]

\* nothing has been called yet; window: the max_history QueryLLM.__init__
\* was given (0 where no session is constructed)
InitSession(window) ==
  /\ last_ret = NoCall
  /\ client_pc = [c \in Clients |-> "idle"]
  /\ client_path = [c \in Clients |-> ""]
  /\ client_ret = [c \in Clients |-> "none"]
  /\ main_pc = "start"
  /\ conversation_history = << >>
  /\ max_history = window
  /\ now = 0
  /\ loop = "off"
  /\ pc = "idle"
  /\ caller = "api"
  /\ query = << >>
  /\ num_results = 0
  /\ vector_results = << >>
  /\ docs = << >>
  /\ mongo_results = << >>
  /\ history = << >>
  /\ context_parts = << >>
  /\ prompt = << >>
  /\ outcome = "none"
  /\ contacted = {}
  /\ entry_log = << >>

\* a session over a corpus ingested earlier
Init ==
  /\ \E script \in Scripts :
       /\ collection = RunScript(script).collection
       /\ vector_store = RunScript(script).vector_store
  /\ \E window \in 0..MaxWindow : InitSession(window)

(* ------------------------- QueryLLM.chat ------------------------------- *)

\* the lines typed at the prompt of the interactive loop
Lines ==
  { << >>, <<" ">>,
    <<"E", "x", "i", "t", " ">>,
    <<"r", "e", "s", "e", "t">>,
    <<" ", "S", "U", "M", "M", "A", "R", "Y">>,
    <<" ", "H", "i", " ">> }

\* the queries a program passes to chat
ApiQueries == { << >>, <<" ">>, <<"H", "i">> }

\* chat is entered with (q, k) by who
Enter(q, k, who) ==
  /\ pc' = "search"
  /\ caller' = who
  /\ query' = q
  /\ num_results' = k
  /\ history' = << >>
  /\ context_parts' = << >>
  /\ prompt' = << >>
  /\ contacted' = {}
  /\ entry_log' = conversation_history
  /\ vector_results' = << >>
  /\ docs' = << >>
  /\ mongo_results' = << >>
  /\ outcome' = "pending"
  /\ UNCHANGED <<conversation_history, max_history, now, loop>>

\* the call is over: its locals are gone (the interactive loop keeps its
\* num_results)
Leave ==
  /\ pc' = "idle"
  /\ query' = << >>
  /\ num_results' = IF caller = "loop" THEN num_results ELSE 0
  /\ history' = << >>
  /\ context_parts' = << >>
  /\ prompt' = << >>
  /\ contacted' = {}
  /\ entry_log' = << >>
  /\ vector_results' = << >>
  /\ docs' = << >>
  /\ mongo_results' = << >>
  /\ UNCHANGED caller

\* (mutant) what chat raises is not caught by the interactive loop
RaiseEndsLoop ==
  /\ Leave
  /\ outcome' = IF caller = "loop" THEN "error" ELSE "raised"
  /\ loop' = IF caller = "loop" THEN "ended" ELSE loop
  /\ UNCHANGED <<conversation_history, max_history, now>>
  /\ UNCHANGED <<ingest_vars, client_vars, main_pc>>

\* chat's "except Exception as e: raise Exception(...)": the call ends; the
\* interactive loop catches what chat raised, prints it and continues
Raise ==
  /\ Leave
  /\ outcome' = IF caller = "loop" THEN "error" ELSE "raised"
  /\ UNCHANGED <<conversation_history, max_history, now, loop>>
  /\ UNCHANGED <<ingest_vars, client_vars, main_pc>>

\* a program calls chat(q, k)
Chat(q, k) ==
  /\ pc = "idle"
  /\ loop = "off"
  /\ now < MaxTurns
  /\ Enter(q, k, "api")
  /\ UNCHANGED <<ingest_vars, client_vars, main_pc>>

\* vector_results = self.vector_search.search_docs(query, k=num_results)
SearchDocs ==
  /\ pc = "search"
  /\ \E results \in search_docs(vector_store, num_results) :
       vector_results' = results
  /\ contacted' = contacted \cup {"vector"}
  /\ pc' = "fetch"
  /\ UNCHANGED <<caller, query, num_results, history, context_parts, prompt,
                 entry_log>>
  /\ UNCHANGED <<docs, mongo_results>>
  /\ UNCHANGED <<session_vars, ingest_vars, client_vars, main_pc>>

\* (mutant) a failed search is swallowed and chat goes on without matches
SearchDocsFailsSwallowed ==
  /\ pc = "search"
  /\ vector_results' = << >>
  /\ pc' = "fetch"
  /\ UNCHANGED <<caller, query, num_results, history, context_parts, prompt,
                 contacted, entry_log>>
  /\ UNCHANGED <<docs, mongo_results>>
  /\ UNCHANGED <<session_vars, ingest_vars, client_vars, main_pc>>

\* search_docs raises
SearchDocsFails ==
  /\ pc = "search"
  /\ Raise

\* mongo_results = self.index_db.get_matching_documents(vector_results)
GetMatchingDocuments ==
  /\ pc = "fetch"
  /\ \E found \in Find(collection, DOMAIN DocScores(vector_results)) :
       /\ docs' = found
       /\ mongo_results' = get_matching_documents(vector_results, found)
  /\ contacted' = contacted \cup {"mongo"}
  /\ pc' = "compose"
  /\ UNCHANGED <<caller, query, num_results, history, context_parts, prompt,
                 entry_log>>
  /\ UNCHANGED vector_results
  /\ UNCHANGED <<session_vars, ingest_vars, client_vars, main_pc>>

\* get_matching_documents raises
GetMatchingDocumentsFails ==
  /\ pc = "fetch"
  /\ Raise

\* context, history and prompt
Compose ==
  /\ pc = "compose"
  /\ context_parts' = ContextParts(vector_results, mongo_results)
  /\ history' = format_conversation_history(conversation_history, max_history)
  /\ prompt' = FormatPrompt(prepare_context(vector_results, mongo_results),
                            history', query)
  /\ pc' = "invoke"
  /\ UNCHANGED <<caller, query, num_results, contacted, entry_log>>
  /\ UNCHANGED <<result_vars, session_vars, ingest_vars, client_vars, main_pc>>

\* the turn chat appends
Turn(response) ==
  [timestamp |-> now,
   query |-> query,
   response |-> response,
   context_used |-> [vector_results |-> Len(vector_results),
                     mongo_results |-> Len(mongo_results)]]

\* (mutant) the stored log is cut to the rendering window after the append
InvokeKeepsWindow ==
  /\ pc = "invoke"
  /\ \E response \in Responses :
       LET log == Append(conversation_history, Turn(response))
       IN  conversation_history' =
             IF Len(log) > max_history
             THEN SubSeq(log, Len(log) - max_history + 1, Len(log))
             ELSE log
  /\ now' = now + 1
  /\ Leave
  /\ outcome' = IF caller = "loop" THEN "answer" ELSE "returned"
  /\ UNCHANGED <<max_history, loop>>
  /\ UNCHANGED <<ingest_vars, client_vars, main_pc>>

\* response = self.llm.invoke(prompt), the append and the return
Invoke ==
  /\ pc = "invoke"
  /\ \E response \in Responses :
       conversation_history' = Append(conversation_history, Turn(response))
  /\ now' = now + 1
  /\ Leave
  /\ outcome' = IF caller = "loop" THEN "answer" ELSE "returned"
  /\ UNCHANGED <<max_history, loop>>
  /\ UNCHANGED <<ingest_vars, client_vars, main_pc>>

\* (mutant) the turn is appended before the language model is invoked
InvokeFailsAfterAppend ==
  /\ pc = "invoke"
  /\ conversation_history' = Append(conversation_history, Turn(<< >>))
  /\ Leave
  /\ outcome' = IF caller = "loop" THEN "error" ELSE "raised"
  /\ UNCHANGED <<max_history, now, loop>>
  /\ UNCHANGED <<ingest_vars, client_vars, main_pc>>

\* llm.invoke raises
InvokeFails ==
  /\ pc = "invoke"
  /\ Raise

(* --------------- reset, summary, the interactive loop ------------------ *)

\* reset_conversation(), called by a program
ResetConversation ==
  /\ pc = "idle"
  /\ loop = "off"
  /\ conversation_history' = reset_conversation(conversation_history)
  /\ outcome' = "reset"
  /\ UNCHANGED <<max_history, now, loop>>
  /\ UNCHANGED <<chat_vars, result_vars, ingest_vars, client_vars, main_pc>>

\* get_conversation_summary(), called by a program
GetConversationSummary ==
  /\ pc = "idle"
  /\ loop = "off"
  /\ outcome' = "summary"
  /\ UNCHANGED <<conversation_history, max_history, now, loop>>
  /\ UNCHANGED <<chat_vars, result_vars, ingest_vars, client_vars, main_pc>>

\* start_interactive_chat(num_results=k)
StartInteractiveChat(k) ==
  /\ pc = "idle"
  /\ loop = "off"
  /\ loop' = "reading"
  /\ caller' = "loop"
  /\ num_results' = k
  /\ outcome' = "started"
  /\ UNCHANGED <<conversation_history, max_history, now>>
  /\ UNCHANGED <<pc, query, history, context_parts, prompt, contacted,
                 entry_log>>
  /\ UNCHANGED <<result_vars, ingest_vars, client_vars, main_pc>>

exit == <<"e", "x", "i", "t">>
reset == <<"r", "e", "s", "e", "t">>
summary == <<"s", "u", "m", "m", "a", "r", "y">>

\* one pass of the loop body up to the chat call: input().strip(), the three
\* commands, the empty line
LoopRead(line) ==
  /\ loop = "reading"
  /\ pc = "idle"
  /\ LET q == Strip(line) IN
       IF Lower(q) = exit
       THEN /\ loop' = "ended"
            /\ outcome' = "ending"
            /\ UNCHANGED <<conversation_history, max_history, now>>
            /\ UNCHANGED <<chat_vars, result_vars>>
       ELSE IF Lower(q) = reset
       THEN /\ conversation_history' = reset_conversation(conversation_history)
            /\ outcome' = "cleared"
            /\ UNCHANGED <<max_history, now, loop>>
            /\ UNCHANGED <<chat_vars, result_vars>>
       ELSE IF Lower(q) = summary
       THEN /\ outcome' = "summary"
            /\ UNCHANGED <<conversation_history, max_history, now, loop>>
            /\ UNCHANGED <<chat_vars, result_vars>>
       ELSE IF q = << >>
       THEN /\ outcome' = "skipped"
            /\ UNCHANGED <<conversation_history, max_history, now, loop>>
            /\ UNCHANGED <<chat_vars, result_vars>>
       ELSE /\ now < MaxTurns
            /\ Enter(q, num_results, "loop")
  /\ UNCHANGED <<ingest_vars, client_vars, main_pc>>

\* Ctrl-C at the prompt or during the chat call: "except KeyboardInterrupt"
KeyboardInterrupt ==
  /\ loop = "reading"
  /\ loop' = "ended"
  /\ Leave
  /\ outcome' = "ending"
  /\ UNCHANGED <<conversation_history, max_history, now>>
  /\ UNCHANGED <<ingest_vars, client_vars, main_pc>>

Next ==
  \/ \E q \in ApiQueries, k \in NumResults : Chat(q, k)
  \/ SearchDocs
  \/ SearchDocsFails
  \/ GetMatchingDocuments
  \/ GetMatchingDocumentsFails
  \/ Compose
  \/ Invoke
  \/ InvokeFails
  \/ ResetConversation
  \/ GetConversationSummary
  \/ \E k \in NumResults : StartInteractiveChat(k)
  \/ \E line \in Lines : LoopRead(line)
  \/ KeyboardInterrupt

Spec == Init /\ [][Next]_vars

(* ---------------- ingestion, one call at a time ------------------------ *)

\* the stores before any ingestion
InitIngest ==
  /\ collection = << >>
  /\ vector_store = << >>
  /\ InitSession(0)

\* index_db.store_document(path)
StoreDocument(path) ==
  LET r == store_document(collection, path) IN
  /\ Len(r.collection) <= MaxStore
  /\ collection' = r.collection
  /\ last_ret' = [op |-> "store_document", path |-> path,
                  ret |-> r.ret, raised |-> r.raised]
  /\ UNCHANGED vector_store
  /\ UNCHANGED <<client_vars, main_pc, chat_vars, result_vars, session_vars>>

\* vector_search.add_document(path); check_ok: its existence query answers
AddDocument(path, check_ok) ==
  LET r == add_document(vector_store, path, check_ok) IN
  /\ Len(r.vector_store) <= MaxVStore
  /\ vector_store' = r.vector_store
  /\ last_ret' = [op |-> "add_document", path |-> path,
                  ret |-> r.ret, raised |-> r.raised]
  /\ UNCHANGED collection
  /\ UNCHANGED <<client_vars, main_pc, chat_vars, result_vars, session_vars>>

NextIngest ==
  \/ \E path \in Paths : StoreDocument(path)
  \/ \E path \in Paths, check_ok \in BOOLEAN : AddDocument(path, check_ok)

SpecIngest == InitIngest /\ [][NextIngest]_vars

(* ------ two clients ingesting at once, and the retrieval program ------- *)

\* the files the two clients ingest
ConcPaths == {"a1.json", "a2.json", "b.json", "noid.json"}

InitConc ==
  /\ collection = << >>
  /\ \E script \in ConcScripts : vector_store = RunScript(script).vector_store
  /\ InitSession(0)

\* store_document up to its find_one: client c loads the file and checks
\* that the identifier is not stored yet
StoreCheck(c, path) ==
  /\ client_pc[c] = "idle"
  /\ client_path' = [client_path EXCEPT ![c] = path]
  /\ IF Readable(path)
        /\ "document_id" \in DOMAIN Load(path)
        /\ ~find_one(collection, Load(path).document_id)
     THEN /\ client_pc' = [client_pc EXCEPT ![c] = "insert"]
          /\ client_ret' = [client_ret EXCEPT ![c] = "none"]
     ELSE /\ client_pc' = client_pc
          /\ client_ret' = [client_ret EXCEPT ![c] = "False"]
  /\ UNCHANGED <<ingest_vars, main_pc, chat_vars, result_vars, session_vars>>

\* store_document from its insert_one on
StoreInsert(c) ==
  /\ client_pc[c] = "insert"
  /\ Len(collection) < MaxStore
  /\ collection' = insert_one(collection, Load(client_path[c]))
  /\ client_pc' = [client_pc EXCEPT ![c] = "idle"]
  /\ client_ret' = [client_ret EXCEPT ![c] = "True"]
  /\ UNCHANGED <<client_path, vector_store, last_ret>>
  /\ UNCHANGED <<main_pc, chat_vars, result_vars, session_vars>>

\* main of index_mongo.py: vector_results = vector_search.search_docs(query, k)
MainSearch(k) ==
  /\ main_pc = "start"
  /\ \E results \in search_docs(vector_store, k) : vector_results' = results
  /\ main_pc' = "searched"
  /\ UNCHANGED <<docs, mongo_results>>
  /\ UNCHANGED <<ingest_vars, client_vars, chat_vars, session_vars>>

\* main of index_mongo.py: full_results = get_matching_documents(vector_results)
MainGetMatching ==
  /\ main_pc = "searched"
  /\ \E found \in Find(collection, DOMAIN DocScores(vector_results)) :
       /\ docs' = found
       /\ mongo_results' = get_matching_documents(vector_results, found)
  /\ main_pc' = "done"
  /\ UNCHANGED vector_results
  /\ UNCHANGED <<ingest_vars, client_vars, chat_vars, session_vars>>

\* main of index_mongo.py: either call raises, "except Exception" prints it
MainFails ==
  /\ main_pc \in {"start", "searched"}
  /\ main_pc' = "failed"
  /\ vector_results' = << >>
  /\ UNCHANGED <<docs, mongo_results>>
  /\ UNCHANGED <<ingest_vars, client_vars, chat_vars, session_vars>>

NextConc ==
  \/ \E c \in Clients, path \in ConcPaths : StoreCheck(c, path)
  \/ \E c \in Clients : StoreInsert(c)
  \/ \E k \in NumResults : MainSearch(k)
  \/ MainGetMatching
  \/ MainFails

SpecConc == InitConc /\ [][NextConc]_vars

(* ------------------------------ claims --------------------------------- *)

\* a chat call ends in failure
ChatFails == SearchDocsFails \/ GetMatchingDocumentsFails \/ InvokeFails

\* C1: when the similarity search, the document fetch or the language-model
\* call fails, chat raises to its caller and the stored log is the log the
\* call began with (so total_turns is unchanged); no step of a call in
\* progress has touched the log either.
C1_NoMutationOnFailure ==
  /\ [](pc # "idle" => conversation_history = entry_log)
  /\ [][ChatFails =>
          /\ outcome' = IF caller = "loop" THEN "error" ELSE "raised"
          /\ pc' = "idle"
          /\ conversation_history' = entry_log
          /\ get_conversation_summary(conversation_history').total_turns
               = Len(entry_log)]_vars

\* a chat call has just failed on a session that holds turns
C1_Witness == outcome = "raised" /\ conversation_history # << >>

\* the last Min(k, n) turns of a log of k turns
Window(turns, n) ==
  SubSeq(turns, Len(turns) - Min(Len(turns), n) + 1, Len(turns))

\* C2: the transcript chat renders is that of exactly the min(k, n) most
\* recent turns, oldest first, a "Human:" and an "Assistant:" line each; it
\* is empty when n = 0 or the log is empty.
C2_RenderWindow ==
  pc = "invoke" =>
    /\ history = Join(<<"\n">>,
                      HistoryLines(Window(conversation_history, max_history)))
    /\ (max_history = 0 \/ conversation_history = << >>) => history = << >>

\* (not a claim) C2 restricted to windows n >= 1
C2_PositiveWindow == max_history >= 1 => C2_RenderWindow

\* the identifiers of the matches M
MatchIds(M) ==
  {M[i].metadata.document_id :
     i \in {j \in 1..Len(M) : "document_id" \in DOMAIN M[j].metadata}}

\* the last match of M for id
LastMatch(M, id) ==
  M[CHOOSE i \in 1..Len(M) :
      /\ M[i].metadata.document_id = id
      /\ \A j \in (i + 1)..Len(M) : M[j].metadata.document_id # id]

\* the fused list holds one item per fetched identifier that is in M, every
\* item is a fetched record with the snippet and score of its last match,
\* and nothing else
JoinExact(M, R, fused) ==
  /\ \A id \in MatchIds(M) :
       (\E r \in 1..Len(R) : R[r].document_id = id) =>
         Cardinality({i \in 1..Len(fused) :
                        fused[i].document.document_id = id}) = 1
  /\ \A i \in 1..Len(fused) :
       /\ fused[i].document.document_id \in MatchIds(M)
       /\ \E r \in 1..Len(R) : R[r] = fused[i].document
       /\ LET m == LastMatch(M, fused[i].document.document_id)
          IN /\ fused[i].vector_content = m.content
             /\ fused[i].similarity_score = m.similarity_score
  /\ M = << >> => fused = << >>

\* C3: the fused list contains exactly the fetched records whose identifier
\* appears in the matches, each identifier exactly once, also when the
\* matches repeat an identifier (the later one wins) or the fetched records
\* do; nothing outside the matches is emitted; no matches, empty list.
C3_JoinExactlyOnce ==
  main_pc = "done" => JoinExact(vector_results, docs, mongo_results)

\* (not a claim) C3 for fetched records that do not repeat an identifier
C3_DistinctRecords ==
  (\A i, j \in 1..Len(docs) :
     i # j => docs[i].document_id # docs[j].document_id)
    => C3_JoinExactlyOnce

\* the fused list is non-decreasing in score
SortedByScore(fused) ==
  \A i, j \in 1..Len(fused) :
    i < j => fused[i].similarity_score <= fused[j].similarity_score

\* items of equal score and different identifiers stand as some two of
\* their matches stand in M
TiesInMatchOrder(M, fused) ==
  \A i, j \in 1..Len(fused) :
    ( /\ i < j
      /\ fused[i].similarity_score = fused[j].similarity_score
      /\ fused[i].document.document_id # fused[j].document.document_id )
    => \E p, q \in 1..Len(M) :
         /\ p < q
         /\ M[p].metadata.document_id = fused[i].document.document_id
         /\ M[q].metadata.document_id = fused[j].document.document_id

\* C4: the fused list is non-decreasing in score and items of equal score
\* keep the relative order of their identifiers in the matches, whatever
\* order the document store returned the records in.
C4_SortedTiesInMatchOrder ==
  main_pc = "done" =>
    /\ SortedByScore(mongo_results)
    /\ TiesInMatchOrder(vector_results, mongo_results)

\* (not a claim) the part of C4 about scores alone
C4_SortedOnly == main_pc = "done" => SortedByScore(mongo_results)

\* C5: the context block has one paragraph per fused item, and the score
\* and snippet a paragraph shows are those of a match whose identifier is
\* that of the document the paragraph shows.
C5_ParagraphsAligned ==
  pc = "invoke" =>
    /\ Len(context_parts) = Len(mongo_results)
    /\ \A i \in 1..Len(context_parts) :
         \E j \in 1..Len(vector_results) :
           /\ vector_results[j].metadata.document_id
                = context_parts[i].document_id
           /\ vector_results[j].content = context_parts[i].content
           /\ vector_results[j].similarity_score = context_parts[i].score

\* C6: a chat call whose query is empty or only whitespace contacts no
\* service and appends no turn.
C6_EmptyQueryRejected ==
  /\ (pc # "idle" /\ Strip(query) = << >>) => contacted = {}
  /\ \A i \in 1..Len(conversation_history) :
       Strip(conversation_history[i].query) # << >>

\* (not a claim) the interactive loop passes no empty query to chat
C6_LoopSkipsEmpty ==
  (caller = "loop" /\ pc # "idle") => Strip(query) # << >>

\* the file holds a record with a document_id field
HasId(path) == Readable(path) /\ "document_id" \in DOMAIN Load(path)

\* the file holds a record without a document_id field
LacksId(path) == Readable(path) /\ "document_id" \notin DOMAIN Load(path)

\* C7: store_document calls made one at a time leave at most one record per
\* identifier: a call for an identifier not stored yet inserts the record
\* and returns True, a call for a stored identifier returns False and
\* leaves the store as it was.
C7_OneRecordPerIdentifier ==
  /\ [](\A i, j \in 1..Len(collection) :
          i # j => collection[i].document_id # collection[j].document_id)
  /\ [][\A path \in Paths :
          (HasId(path) /\ StoreDocument(path)) =>
            IF find_one(collection, Load(path).document_id)
            THEN collection' = collection /\ last_ret'.ret = FALSE
            ELSE /\ collection' = Append(collection, Load(path))
                 /\ last_ret'.ret = TRUE]_vars

\* a second record for a stored identifier has just been turned down, the
\* first one still in the store
C7_Witness ==
  /\ last_ret = [op |-> "store_document", path |-> "a2.json",
                 ret |-> FALSE, raised |-> FALSE]
  /\ \E i \in 1..Len(collection) : collection[i] = Load("a1.json")

\* a reset of the log, by a program or by the loop's reset command
ResetStep ==
  \/ ResetConversation
  \/ \E line \in Lines : Lower(Strip(line)) = reset /\ LoopRead(line)

\* C8: after reset the log is empty: render is empty for every window and
\* summary reports no turn and no start or end time; the log stays empty
\* until a chat call appends a turn; a reset right after a reset changes
\* nothing.
C8_Reset ==
  /\ [][ResetStep => conversation_history' = << >>]_vars
  /\ [](conversation_history = << >> =>
          /\ \A n \in 0..(MaxWindow + 1) :
               format_conversation_history(conversation_history, n) = << >>
          /\ get_conversation_summary(conversation_history)
               = [total_turns |-> 0, conversation_start |-> None,
                  conversation_end |-> None])
  /\ [][(conversation_history = << >> /\ conversation_history' # << >>)
          => Invoke]_vars
  /\ [][(outcome \in {"reset", "cleared"} /\ ResetStep)
          => conversation_history' = conversation_history]_vars

\* a reset has just cleared a log that held turns
C8_Witness ==
  outcome \in {"reset", "cleared"} /\ now >= 1 /\ conversation_history = << >>

\* C9: in the interactive loop a failed chat call is reported and the loop
\* is back at its prompt with the log as it was; the loop ends only on the
\* exit command or a keyboard interrupt.
C9_LoopSurvivesFailure ==
  /\ [][(ChatFails /\ caller = "loop") =>
          /\ loop' = "reading"
          /\ pc' = "idle"
          /\ outcome' = "error"
          /\ conversation_history' = conversation_history]_vars
  /\ [][(loop = "reading" /\ loop' # "reading") =>
          \/ KeyboardInterrupt
          \/ \E line \in Lines : Lower(Strip(line)) = exit /\ LoopRead(line)]_vars

\* the loop is at its prompt right after a failed exchange
C9_Witness ==
  outcome = "error" /\ loop = "reading" /\ pc = "idle"
    /\ conversation_history # << >>

Phase ==
  CASE pc = "idle" -> "Idle"
    [] pc \in {"search", "fetch"} -> "Retrieving"
    [] pc = "compose" -> "Composing"
    [] pc = "invoke" -> "Generating"

\* a step of the controller: forward by one state, on within Retrieving, or
\* back to Idle
PhaseStep(from, to) ==
  \/ from = to
  \/ from = "Idle" /\ to = "Retrieving"
  \/ from = "Retrieving" /\ to = "Composing"
  \/ from = "Composing" /\ to = "Generating"
  \/ to = "Idle"

\* C11: a chat call goes Idle -> Retrieving -> Composing -> Generating ->
\* Idle, one state at a time and never stuck: the document store is queried only after the similarity search
\* succeeded, the language model is invoked only on the prompt assembled
\* after both retrievals succeeded, a turn is appended only by the step in
\* which the language model returned, and every call, failed or not, comes
\* back to Idle.
C11_ChatStateMachine ==
  /\ [][PhaseStep(Phase, Phase')]_vars
  /\ [][(GetMatchingDocuments \/ GetMatchingDocumentsFails) =>
          /\ "vector" \in contacted
          /\ Phase = "Retrieving"]_vars
  /\ [][(Invoke \/ InvokeFails) =>
          /\ contacted = {"vector", "mongo"}
          /\ Phase = "Generating"
          /\ prompt = FormatPrompt(
                        prepare_context(vector_results, mongo_results),
                        format_conversation_history(conversation_history,
                                                    max_history),
                        query)]_vars
  /\ [][Len(conversation_history') > Len(conversation_history) =>
          /\ Phase = "Generating"
          /\ Phase' = "Idle"
          /\ outcome' \in {"returned", "answer"}]_vars
  /\ [][(ChatFails \/ Invoke) => Phase' = "Idle"]_vars
  /\ [][Phase # "Idle" => pc' # pc]_vars
  /\ [](Phase # "Idle" =>
          ENABLED (SearchDocsFails \/ GetMatchingDocumentsFails \/ Compose
                     \/ InvokeFails))
  /\ [](Phase = "Idle" /\ loop = "off" /\ now < MaxTurns =>
          ENABLED Chat(<<"H", "i">>, 1))

\* a second call is in the Generating state, after a first one that failed
\* and one that succeeded
C11_Witness ==
  Phase = "Generating" /\ conversation_history # << >>

\* a summary request: the method called by a program or the loop's command
SummaryStep ==
  \/ GetConversationSummary
  \/ \E line \in Lines : Lower(Strip(line)) = summary /\ LoopRead(line)

\* log is old with one turn more, of this call
ExtendedByThisCall(old, log) ==
  /\ Len(log) = Len(old) + 1
  /\ \A i \in 1..Len(old) : log[i] = old[i]
  /\ log[Len(log)].query = query
  /\ log[Len(log)].response \in Responses
  /\ log[Len(log)].context_used =
       [vector_results |-> Len(vector_results),
        mongo_results |-> Len(mongo_results)]

SameIdentifier(c, d) ==
  /\ {client_path[c], client_path[d]} \subseteq ConcPaths
  /\ HasId(client_path[c])
  /\ HasId(client_path[d])
  /\ Load(client_path[c]).document_id = Load(client_path[d]).document_id

\* C13: two clients run store_document for one identifier at the same time,
\* their find_one and insert_one interleaved in any order: the store holds
\* one record of that identifier, never two, and the two calls do not both
\* return True. (Two calls for one identifier that both returned True have
\* overlapped: had one returned before the other began, the later find_one
\* would have found its record.)
C13_ConcurrentStoreOnce ==
  /\ \A c, d \in Clients :
       (c # d /\ SameIdentifier(c, d)) =>
         LET id == Load(client_path[c]).document_id
             stored == {i \in 1..Len(collection) :
                          collection[i].document_id = id}
         IN  /\ Cardinality(stored) <= 1
             /\ ~(client_ret[c] = "True" /\ client_ret[d] = "True")
             /\ (client_ret[c] = "True" \/ client_ret[d] = "True")
                  => Cardinality(stored) = 1

=============================================================================
